---- MODULE Spec2Model ----
(***************************************************************************)
(* A model of the StepByStep training harness of                           *)
(* z_models/linear_regression_v0.py.                                       *)
(*                                                                         *)
(* The process state is one record, st: the fields of the StepByStep       *)
(* object, of its model (weight w, accumulated gradient, mode,             *)
(* device) and of its optimizer (its state), the global random             *)
(* generator, and the locals of the train call in progress (pc is the      *)
(* position inside train / _mini_batch / the step function).               *)
(* twin is a second process in which the same calls are made with the same *)
(* arguments and outcomes, except that its random generator is in an       *)
(* arbitrary state whenever train is entered.                              *)
(*                                                                         *)
(* Numbers: the model is yhat = w * x, the loss is the squared error, the  *)
(* optimizer is gradient descent with learning rate 1/2 that counts its    *)
(* steps (its state); an epoch's loss is the exact rational sum/count of   *)
(* its mini-batch losses.                                                  *)
(***************************************************************************)
EXTENDS Integers, Sequences, FiniteSets, TLC

VARIABLES st, twin, file, saved, cuda_available

vars == <<st, twin, file, saved, cuda_available>>

(* ------------------------------ bounds --------------------------------- *)

\* train is not called when it would take total_epochs past this
MaxTotalEpochs == 2

\* the n_epochs passed to train
EpochCounts == 0..2

Seeds == {1, 2}

\* the states of the modelled random generator
RngStates == {0, 1}

InitWeights == {1}

Devices == {"cpu", "cuda"}

(* ------------------------------ values --------------------------------- *)

\* a loss that is None (the loader was None)
NoneLoss == [num |-> 0, den |-> 0]

NoBatch == [x |-> 0, y |-> 0, device |-> "None"]

NoEntry == [total_epochs |-> 0, losses |-> <<>>, val_losses |-> <<>>, writer |-> "None"]

NoFile ==
  [exists |-> FALSE, epoch |-> 0, model_state_dict |-> 0,
   optimizer_state_dict |-> 0, loss |-> <<>>, val_loss |-> <<>>]

NoSnapshot ==
  [total_epochs |-> 0, losses |-> <<>>, val_losses |-> <<>>, w |-> 0, opt_state |-> 0]

Last(seq) == seq[Len(seq)]

RECURSIVE Sum(_)
Sum(seq) == IF seq = <<>> THEN 0 ELSE Head(seq) + Sum(Tail(seq))

\* np.sum in the place of np.mean
MeanSum(seq) == [num |-> Sum(seq), den |-> 1]

\* np.mean of a list of numbers, as the exact rational num / den
Mean(seq) == [num |-> Sum(seq), den |-> Len(seq)]

\* a <= b for two rationals with positive denominators
Leq(a, b) == a.num * b.den <= b.num * a.den

\* 'cuda' if torch.cuda.is_available() else 'cpu'
DefaultDevice == IF cuda_available THEN "cuda" ELSE "cpu"

\* a tensor can be put on device d
Usable(d) == d = "cpu" \/ (d = "cuda" /\ cuda_available)

\* what self.model.to(d) can do: succeed, raise RuntimeError (out of memory,
\* no driver), or raise another exception (a build without CUDA asserts)
ModelToOutcomes(d) ==
  IF d = "cpu" THEN {"ok"}
  ELSE IF cuda_available THEN {"ok", "RuntimeError"}
  ELSE {"RuntimeError", "AssertionError"}

(* ------------------------------ loaders -------------------------------- *)

\* the mini-batches of a loader, in dataset order
Batches(loader) ==
  IF loader = "train_loader" THEN << [x |-> 1, y |-> 0], [x |-> 1, y |-> 2] >>
  ELSE << [x |-> 1, y |-> 1] >>

\* DataLoader(shuffle=True) for the training set only
Shuffles(loader) == loader = "train_loader"

Rotate(seq, k) ==
  [i \in 1..Len(seq) |-> seq[((i - 1 + k) % Len(seq)) + 1]]

\* the random generator: seeding, and the state after one draw
SeedRng(seed) == seed % Cardinality(RngStates)

NextRng(r) == (r + 1) % Cardinality(RngStates)

\* iter(data_loader): draws from the global generator; a shuffling loader's
\* order depends on the number drawn
IterOrder(loader, r) ==
  IF Shuffles(loader) THEN Rotate(Batches(loader), r % Len(Batches(loader)))
  ELSE Batches(loader)

(* --------------------------- the object -------------------------------- *)

\* The fields of st (and of twin):
\*   device, train_loader, val_loader, writer, losses, val_losses,
\*   total_epochs        the attributes of the StepByStep object; writer is
\*                       "None", "open" or "closed"
\*   w, grad, mode, model_device   the model: its weight, the gradients
\*                       accumulated on it (one entry per backward pass since
\*                       the last reset), train/eval mode, where it is
\*   opt_state           the optimizer's state
\*   rng                 the global random generator
\*   pc, n_epochs, epoch, validation, batches, mini_batch_losses, x_batch,
\*   yhat, step_loss, loss, val_loss   the position and the locals of the
\*                       train call in progress
\* and, recorded for the properties only:
\*   last_to             the device the last to() asked for, and whether it
\*                       returned or raised (the constructor counts as a to())
\*   train_raised        some train call has raised
\*   restored            the last load_checkpoint replaced values that differed
\*                       from the checkpoint, and train was not called since
\*   entry               total_epochs, the histories and the writer at the
\*                       entry of the train call in progress
\*   visited, w_before   the batches stepped in the pass in progress, each
\*                       with the weight its forward pass used
\*   ops                 the operations the step in progress has performed
\*   events              what the train call in progress has sent to the writer
\* saved holds the values of the object at the last save_checkpoint, taken
\* from the object and not from the file.

\* the locals of a train call, outside any call
IdleFrame(s) ==
  [s EXCEPT !.pc = "idle", !.n_epochs = 0, !.epoch = 0, !.validation = FALSE,
            !.batches = <<>>, !.mini_batch_losses = <<>>, !.x_batch = NoBatch,
            !.yhat = 0, !.w_before = 0, !.step_loss = 0, !.loss = NoneLoss,
            !.val_loss = NoneLoss,
            !.events = <<>>, !.entry = NoEntry, !.visited = <<>>, !.ops = <<>>]

\* StepByStep(model, loss_fn, optimizer), the model's weight being w0
init(w0, r, everRaised) ==
  [device |-> DefaultDevice, train_loader |-> "None", val_loader |-> "None",
   writer |-> "None", losses |-> <<>>, val_losses |-> <<>>, total_epochs |-> 0,
   w |-> w0, grad |-> <<>>, mode |-> "train", model_device |-> DefaultDevice,
   opt_state |-> 0, rng |-> r,
   last_to |-> [requested |-> DefaultDevice, status |-> "returned"],
   train_raised |-> everRaised, restored |-> FALSE,
   pc |-> "idle", n_epochs |-> 0, epoch |-> 0, validation |-> FALSE,
   batches |-> <<>>, mini_batch_losses |-> <<>>, x_batch |-> NoBatch,
   yhat |-> 0, w_before |-> 0, step_loss |-> 0, loss |-> NoneLoss,
   val_loss |-> NoneLoss,
   events |-> <<>>, entry |-> NoEntry, visited |-> <<>>, ops |-> <<>>]

\* an exception leaves the call: the locals are gone, the object stays as it is
Raise(s) == [IdleFrame(s) EXCEPT !.train_raised = @ \/ s.pc # "idle"]

(* ------------------------- calls made when idle ------------------------ *)

\* to(device) with the except branch leaving self.device as requested
to_keeps_requested(s, device, o1, o2) ==
  LET req == [s EXCEPT !.device = device]
  IN IF o1 = "ok"
     THEN [req EXCEPT !.model_device = device,
                      !.last_to = [requested |-> device, status |-> "returned"]]
     ELSE IF o1 = "RuntimeError" /\ o2 = "ok"
     THEN [req EXCEPT !.model_device = DefaultDevice,
                      !.last_to = [requested |-> device, status |-> "returned"]]
     ELSE [Raise(req) EXCEPT
             !.last_to = [requested |-> device, status |-> "raised"]]

\* to(device): o1 is what self.model.to(device) does, o2 what the
\* self.model.to(default) of the except branch does
to(s, device, o1, o2) ==
  LET req == [s EXCEPT !.device = device]
  IN IF o1 = "ok"
     THEN [req EXCEPT !.model_device = device,
                      !.last_to = [requested |-> device, status |-> "returned"]]
     ELSE IF o1 = "RuntimeError"
     THEN LET fall == [req EXCEPT !.device = DefaultDevice]
          IN IF o2 = "ok"
             THEN [fall EXCEPT !.model_device = DefaultDevice,
                     !.last_to = [requested |-> device, status |-> "returned"]]
             ELSE [Raise(fall) EXCEPT
                     !.last_to = [requested |-> device, status |-> "raised"]]
     ELSE [Raise(req) EXCEPT
             !.last_to = [requested |-> device, status |-> "raised"]]

set_loaders(s, train_loader, val_loader) ==
  [s EXCEPT !.train_loader = train_loader, !.val_loader = val_loader]

\* a new SummaryWriter
set_tensorboard(s) == [s EXCEPT !.writer = "open"]

\* add_graph: fetches one mini-batch (iter draws from the generator), sends it
\* to self.device and traces the model on it; a closed writer reopens
add_graph(s) ==
  IF s.train_loader # "None" /\ s.writer # "None"
  THEN LET drawn == [s EXCEPT !.rng = NextRng(s.rng)]
       IN IF Usable(s.device) /\ s.device = s.model_device
          THEN [drawn EXCEPT !.writer = "open"]
          ELSE Raise(drawn)
  ELSE s

\* the file torch.save writes: a copy of the values at the time of the call
save_checkpoint(s) ==
  [exists |-> TRUE, epoch |-> s.total_epochs, model_state_dict |-> s.w,
   optimizer_state_dict |-> s.opt_state, loss |-> s.losses, val_loss |-> s.val_losses]

\* load_checkpoint that leaves the optimizer as it is
load_checkpoint_no_optimizer(s, f) ==
  [s EXCEPT !.w = f.model_state_dict,
            !.total_epochs = f.epoch, !.losses = f.loss, !.val_losses = f.val_loss,
            !.mode = "train"]

load_checkpoint(s, f) ==
  [s EXCEPT !.w = f.model_state_dict, !.opt_state = f.optimizer_state_dict,
            !.total_epochs = f.epoch, !.losses = f.loss, !.val_losses = f.val_loss,
            !.mode = "train"]

\* predict: eval mode, the input sent to self.device, a forward pass, train mode
predict(s) ==
  LET e == [s EXCEPT !.mode = "eval"]
  IN IF Usable(s.device) /\ s.device = s.model_device
     THEN [e EXCEPT !.mode = "train"]
     ELSE Raise(e)

(* ------------------------------- train --------------------------------- *)

\* set_seed that seeds nothing
set_seed_noop(s, seed) == s

\* torch.manual_seed(seed); np.random.seed(seed)
set_seed(s, seed) == [s EXCEPT !.rng = SeedRng(seed)]

\* train(n_epochs, seed), up to the head of its loop
train(s, n_epochs, seed) ==
  [set_seed(s, seed) EXCEPT
     !.pc = "loop", !.n_epochs = n_epochs, !.epoch = 0, !.restored = FALSE,
     !.entry = [total_epochs |-> s.total_epochs, losses |-> s.losses,
                val_losses |-> s.val_losses, writer |-> s.writer]]

\* _mini_batch(validation), up to the head of its loop or to its early return
mini_batch(s, validation) ==
  LET data_loader == IF validation THEN s.val_loader ELSE s.train_loader
      v == [s EXCEPT !.validation = validation]
  IN IF data_loader = "None"
     THEN IF validation
          THEN [v EXCEPT !.val_loss = NoneLoss, !.pc = "append_val"]
          ELSE [v EXCEPT !.loss = NoneLoss, !.pc = "append_loss"]
     ELSE [v EXCEPT !.batches = IterOrder(data_loader, s.rng),
                    !.rng = NextRng(s.rng),
                    !.mini_batch_losses = <<>>, !.visited = <<>>,
                    !.pc = "next_batch"]

\* the head of train's loop that forgets to count the epoch
epoch_begin_uncounted(s) == mini_batch(s, FALSE)

\* the head of train's loop, an epoch left: count it and start its training pass
epoch_begin(s) == mini_batch([s EXCEPT !.total_epochs = @ + 1], FALSE)

\* the head of train's loop, no epoch left: close the writer
loop_exit(s) ==
  IF s.writer # "None"
  THEN [s EXCEPT !.writer = "closed", !.pc = "return",
                 !.events = Append(@, [kind |-> "close", global_step |-> 0,
                                       training |-> NoneLoss, validation |-> NoneLoss])]
  ELSE [s EXCEPT !.pc = "return"]

\* the head of _mini_batch's loop: the next batch is sent to self.device, or
\* the mean of the losses is returned
next_batch(s) ==
  IF s.batches = <<>>
  THEN IF s.validation
       THEN [s EXCEPT !.val_loss = Mean(s.mini_batch_losses), !.pc = "append_val"]
       ELSE [s EXCEPT !.loss = Mean(s.mini_batch_losses), !.pc = "append_loss"]
  ELSE IF ~Usable(s.device)
  THEN Raise(s)
  ELSE [s EXCEPT !.x_batch = [x |-> Head(s.batches).x, y |-> Head(s.batches).y,
                              device |-> s.device],
                 !.batches = Tail(@), !.ops = <<>>,
                 !.pc = IF s.validation THEN "val_forward" ELSE "forward"]

\* perform_train_step_fn: self.model.train(); yhat = self.model(x)
forward(s) ==
  LET m == [s EXCEPT !.mode = "train"]
  IN IF s.x_batch.device # s.model_device
     THEN Raise(m)
     ELSE [m EXCEPT !.yhat = s.w * s.x_batch.x, !.w_before = s.w,
                    !.ops = Append(@, "forward"), !.pc = "loss_fn"]

\* loss = self.loss_fn(yhat, y), the squared error
loss_fn(s) ==
  [s EXCEPT !.step_loss = (s.yhat - s.x_batch.y) * (s.yhat - s.x_batch.y),
            !.ops = Append(@, "loss"), !.pc = "backward"]

\* loss.backward(): the gradient of the loss is added to the accumulated one
backward(s) ==
  [s EXCEPT !.grad = Append(@, [x |-> s.x_batch.x, y |-> s.x_batch.y,
                                g |-> 2 * s.x_batch.x * (s.yhat - s.x_batch.y)]),
            !.ops = Append(@, "backward"), !.pc = "step"]

\* the value of the accumulated gradient
GradValue(grad) == Sum([i \in 1..Len(grad) |-> grad[i].g])

\* self.optimizer.step(): w - lr * grad with lr = 1/2 (the gradient is even),
\* and one more step counted; a parameter without gradient is skipped
optimizer_step(s) ==
  LET o == [s EXCEPT !.ops = Append(@, "step"), !.pc = "zero_grad"]
  IN IF s.grad = <<>> THEN o
     ELSE [o EXCEPT !.opt_state = @ + 1, !.w = @ - (GradValue(s.grad) \div 2)]

\* a train step that does not reset the gradients
zero_grad_skipped(s) ==
  [s EXCEPT !.ops = Append(@, "zero_grad"),
            !.mini_batch_losses = Append(@, s.step_loss),
            !.visited = Append(@, [x |-> s.x_batch.x, y |-> s.x_batch.y, w |-> s.w_before]),
            !.pc = "next_batch"]

\* self.optimizer.zero_grad(); return loss.item(), appended by _mini_batch
zero_grad(s) ==
  [s EXCEPT !.grad = <<>>, !.ops = Append(@, "zero_grad"),
            !.mini_batch_losses = Append(@, s.step_loss),
            !.visited = Append(@, [x |-> s.x_batch.x, y |-> s.x_batch.y, w |-> s.w_before]),
            !.pc = "next_batch"]

\* perform_val_step_fn: self.model.eval(); yhat = self.model(x)
val_forward(s) ==
  LET m == [s EXCEPT !.mode = "eval"]
  IN IF s.x_batch.device # s.model_device
     THEN Raise(m)
     ELSE [m EXCEPT !.yhat = s.w * s.x_batch.x, !.w_before = s.w,
                    !.ops = Append(@, "forward"), !.pc = "val_loss_fn"]

\* a validation step that goes on like a train step
val_loss_fn_trains(s) ==
  LET l == [s EXCEPT !.step_loss = (s.yhat - s.x_batch.y) * (s.yhat - s.x_batch.y)]
      u == optimizer_step(backward(l))
  IN [u EXCEPT !.ops = Append(s.ops, "loss"),
               !.mini_batch_losses = Append(@, l.step_loss),
               !.visited = Append(@, [x |-> s.x_batch.x, y |-> s.x_batch.y, w |-> s.w_before]),
               !.pc = "next_batch"]

\* loss = self.loss_fn(yhat, y); return loss.item(), appended by _mini_batch
val_loss_fn(s) ==
  LET l == (s.yhat - s.x_batch.y) * (s.yhat - s.x_batch.y)
  IN [s EXCEPT !.step_loss = l, !.ops = Append(@, "loss"),
               !.mini_batch_losses = Append(@, l),
               !.visited = Append(@, [x |-> s.x_batch.x, y |-> s.x_batch.y, w |-> s.w_before]),
               !.pc = "next_batch"]

\* self.losses.append(loss), then the validation pass starts
append_loss(s) == mini_batch([s EXCEPT !.losses = Append(@, s.loss)], TRUE)

\* add_scalars numbered by total_epochs
add_scalars_total(s) ==
  IF s.writer # "None"
  THEN [s EXCEPT !.writer = "open",
                 !.events = Append(@, [kind |-> "add_scalars",
                                       global_step |-> s.total_epochs,
                                       training |-> s.loss, validation |-> s.val_loss])]
  ELSE s

\* if self.writer: add_scalars('loss', {training[, validation]}, epoch); a
\* validation of NoneLoss stands for the key left out; a closed writer reopens
add_scalars(s) ==
  IF s.writer # "None"
  THEN [s EXCEPT !.writer = "open",
                 !.events = Append(@, [kind |-> "add_scalars",
                                       global_step |-> s.epoch,
                                       training |-> s.loss, validation |-> s.val_loss])]
  ELSE s

\* self.val_losses.append(val_loss), the record, and the loop goes on
append_val(s) ==
  [add_scalars([s EXCEPT !.val_losses = Append(@, s.val_loss)]) EXCEPT
     !.epoch = @ + 1, !.pc = "loop"]

\* train returns
train_return(s) == IdleFrame(s)

(* ------------------------------ actions -------------------------------- *)

\* what save_checkpoint is meant to keep, taken from the object itself
Snapshot(s) ==
  [total_epochs |-> s.total_epochs, losses |-> s.losses, val_losses |-> s.val_losses,
   w |-> s.w, opt_state |-> s.opt_state]

\* a new instance, no checkpoint written yet
Init ==
  /\ cuda_available \in BOOLEAN
  /\ \E w0 \in InitWeights : st = init(w0, 0, FALSE)
  /\ twin = st
  /\ file = NoFile
  /\ saved = NoSnapshot

\* the same on a machine without CUDA
InitCpu == Init /\ ~cuda_available

Construct ==
  /\ st.pc = "idle"
  /\ \E w0 \in InitWeights :
       /\ st' = init(w0, st.rng, st.train_raised)
       /\ twin' = init(w0, twin.rng, twin.train_raised)
  /\ UNCHANGED <<file, saved, cuda_available>>

To ==
  /\ st.pc = "idle"
  /\ \E device \in Devices :
       \E o1 \in ModelToOutcomes(device) :
         \E o2 \in (IF o1 = "RuntimeError" THEN ModelToOutcomes(DefaultDevice) ELSE {"ok"}) :
           /\ st' = to(st, device, o1, o2)
           /\ twin' = to(twin, device, o1, o2)
  /\ UNCHANGED <<file, saved, cuda_available>>

SetLoaders ==
  /\ st.pc = "idle"
  /\ \E val_loader \in {"None", "val_loader"} :
       /\ st' = set_loaders(st, "train_loader", val_loader)
       /\ twin' = set_loaders(twin, "train_loader", val_loader)
  /\ UNCHANGED <<file, saved, cuda_available>>

SetTensorboard ==
  /\ st.pc = "idle"
  /\ st' = set_tensorboard(st)
  /\ twin' = set_tensorboard(twin)
  /\ UNCHANGED <<file, saved, cuda_available>>

AddGraph ==
  /\ st.pc = "idle"
  /\ st' = add_graph(st)
  /\ twin' = add_graph(twin)
  /\ UNCHANGED <<file, saved, cuda_available>>

SaveCheckpoint ==
  /\ st.pc = "idle"
  /\ file' = save_checkpoint(st)
  /\ saved' = Snapshot(st)
  /\ UNCHANGED <<st, twin, cuda_available>>

LoadCheckpoint ==
  /\ st.pc = "idle"
  /\ file.exists
  /\ st' = [load_checkpoint(st, file) EXCEPT !.restored = Snapshot(st) # saved]
  /\ twin' = [load_checkpoint(twin, file) EXCEPT !.restored = Snapshot(twin) # saved]
  /\ UNCHANGED <<file, saved, cuda_available>>

Predict ==
  /\ st.pc = "idle"
  /\ st' = predict(st)
  /\ twin' = predict(twin)
  /\ UNCHANGED <<file, saved, cuda_available>>

\* the twin enters train with its generator in any state
Train ==
  /\ st.pc = "idle"
  /\ \E n_epochs \in EpochCounts :
       /\ st.total_epochs + n_epochs <= MaxTotalEpochs
       /\ \E seed \in Seeds : \E r \in RngStates :
            /\ st' = train(st, n_epochs, seed)
            /\ twin' = train([twin EXCEPT !.rng = r], n_epochs, seed)
  /\ UNCHANGED <<file, saved, cuda_available>>

EpochBegin ==
  /\ st.pc = "loop"
  /\ st.epoch < st.n_epochs
  /\ st' = epoch_begin(st)
  /\ twin' = epoch_begin(twin)
  /\ UNCHANGED <<file, saved, cuda_available>>

LoopExit ==
  /\ st.pc = "loop"
  /\ st.epoch >= st.n_epochs
  /\ st' = loop_exit(st)
  /\ twin' = loop_exit(twin)
  /\ UNCHANGED <<file, saved, cuda_available>>

NextBatch ==
  /\ st.pc = "next_batch"
  /\ st' = next_batch(st)
  /\ twin' = next_batch(twin)
  /\ UNCHANGED <<file, saved, cuda_available>>

Forward ==
  /\ st.pc = "forward"
  /\ st' = forward(st)
  /\ twin' = forward(twin)
  /\ UNCHANGED <<file, saved, cuda_available>>

LossFn ==
  /\ st.pc = "loss_fn"
  /\ st' = loss_fn(st)
  /\ twin' = loss_fn(twin)
  /\ UNCHANGED <<file, saved, cuda_available>>

Backward ==
  /\ st.pc = "backward"
  /\ st' = backward(st)
  /\ twin' = backward(twin)
  /\ UNCHANGED <<file, saved, cuda_available>>

OptimizerStep ==
  /\ st.pc = "step"
  /\ st' = optimizer_step(st)
  /\ twin' = optimizer_step(twin)
  /\ UNCHANGED <<file, saved, cuda_available>>

ZeroGrad ==
  /\ st.pc = "zero_grad"
  /\ st' = zero_grad(st)
  /\ twin' = zero_grad(twin)
  /\ UNCHANGED <<file, saved, cuda_available>>

ValForward ==
  /\ st.pc = "val_forward"
  /\ st' = val_forward(st)
  /\ twin' = val_forward(twin)
  /\ UNCHANGED <<file, saved, cuda_available>>

ValLossFn ==
  /\ st.pc = "val_loss_fn"
  /\ st' = val_loss_fn(st)
  /\ twin' = val_loss_fn(twin)
  /\ UNCHANGED <<file, saved, cuda_available>>

AppendLoss ==
  /\ st.pc = "append_loss"
  /\ st' = append_loss(st)
  /\ twin' = append_loss(twin)
  /\ UNCHANGED <<file, saved, cuda_available>>

AppendVal ==
  /\ st.pc = "append_val"
  /\ st' = append_val(st)
  /\ twin' = append_val(twin)
  /\ UNCHANGED <<file, saved, cuda_available>>

TrainReturn ==
  /\ st.pc = "return"
  /\ st' = train_return(st)
  /\ twin' = train_return(twin)
  /\ UNCHANGED <<file, saved, cuda_available>>

\* a script that trains, checkpoints and predicts with one instance on the
\* default device
Next ==
  \/ SetLoaders
  \/ SaveCheckpoint
  \/ LoadCheckpoint
  \/ Predict
  \/ Train
  \/ EpochBegin
  \/ LoopExit
  \/ NextBatch
  \/ Forward
  \/ LossFn
  \/ Backward
  \/ OptimizerStep
  \/ ZeroGrad
  \/ ValForward
  \/ ValLossFn
  \/ AppendLoss
  \/ AppendVal
  \/ TrainReturn

Spec == InitCpu /\ [][Next]_vars

\* the same script, which also makes new instances
NextInstances ==
  \/ Construct
  \/ SetLoaders
  \/ SaveCheckpoint
  \/ LoadCheckpoint
  \/ Predict
  \/ Train
  \/ EpochBegin
  \/ LoopExit
  \/ NextBatch
  \/ Forward
  \/ LossFn
  \/ Backward
  \/ OptimizerStep
  \/ ZeroGrad
  \/ ValForward
  \/ ValLossFn
  \/ AppendLoss
  \/ AppendVal
  \/ TrainReturn

SpecInstances == InitCpu /\ [][NextInstances]_vars

\* a script that also moves one instance between devices
NextDevice ==
  \/ To
  \/ SetLoaders
  \/ SaveCheckpoint
  \/ LoadCheckpoint
  \/ Predict
  \/ Train
  \/ EpochBegin
  \/ LoopExit
  \/ NextBatch
  \/ Forward
  \/ LossFn
  \/ Backward
  \/ OptimizerStep
  \/ ZeroGrad
  \/ ValForward
  \/ ValLossFn
  \/ AppendLoss
  \/ AppendVal
  \/ TrainReturn

SpecDevice == Init /\ [][NextDevice]_vars

\* a script that logs the training of one instance to TensorBoard
NextWriter ==
  \/ SetLoaders
  \/ SetTensorboard
  \/ AddGraph
  \/ Predict
  \/ Train
  \/ EpochBegin
  \/ LoopExit
  \/ NextBatch
  \/ Forward
  \/ LossFn
  \/ Backward
  \/ OptimizerStep
  \/ ZeroGrad
  \/ ValForward
  \/ ValLossFn
  \/ AppendLoss
  \/ AppendVal
  \/ TrainReturn

SpecWriter == InitCpu /\ [][NextWriter]_vars

(* ------------------------------- claims -------------------------------- *)

InTrainStep(s) == s.pc \in {"forward", "loss_fn", "backward", "step", "zero_grad"}

InValStep(s) == s.pc \in {"val_forward", "val_loss_fn"}

\* C1: a step that writes the checkpoint changes none of total_epochs, losses,
\* val_losses, the model's parameters and the optimizer's state, and after
\* load_checkpoint has replaced them they equal what they were when the
\* checkpoint was saved.
ThmCheckpointRoundTrip ==
  [][ /\ file' # file => Snapshot(st') = Snapshot(st)
      /\ st'.restored => Snapshot(st') = saved' ]_vars

\* C1 happens: a checkpoint saved after an epoch of training has been loaded
\* over a state that differed from it.
WitCheckpointRoundTrip ==
  /\ st.restored
  /\ saved.total_epochs = 1
  /\ Len(saved.losses) = 1
  /\ saved.opt_state > 0
  /\ Snapshot(st) = saved

\* C2: when the last to() returned normally, self.device is the device the
\* model is on, and it is the requested device or, after the fallback, the
\* default one; every mini-batch in a step has been moved to self.device.
InvDeviceFallback ==
  /\ st.last_to.status = "returned" =>
       /\ st.device = st.model_device
       /\ st.device \in {st.last_to.requested, DefaultDevice}
  /\ (InTrainStep(st) \/ InValStep(st)) => st.x_batch.device = st.device

\* C2 happens: to() fell back to the default device, and a mini-batch moved to
\* it is in a train step.
WitDeviceFallback ==
  /\ st.last_to.status = "returned"
  /\ st.last_to.requested # st.device
  /\ st.pc = "loss_fn"

\* the operations a train step has performed when it stands at pc
OpsBefore(pc) ==
  CASE pc = "forward" -> <<>>
    [] pc = "loss_fn" -> <<"forward">>
    [] pc = "backward" -> <<"forward", "loss">>
    [] pc = "step" -> <<"forward", "loss", "backward">>
    [] pc = "zero_grad" -> <<"forward", "loss", "backward", "step">>

Range(seq) == {seq[i] : i \in 1..Len(seq)}

\* C3: a train step performs forward, loss, backward, optimizer step and
\* gradient reset in this order; the accumulated gradient is empty when a train
\* step starts (and outside train steps); the optimizer step uses the gradient
\* of the step's own mini-batch alone; and when the training pass of an epoch
\* ends every mini-batch of the loader has had exactly one train step.
InvTrainStep ==
  /\ InTrainStep(st) => st.ops = OpsBefore(st.pc)
  /\ st.pc \notin {"step", "zero_grad"} => st.grad = <<>>
  /\ st.pc \in {"step", "zero_grad"} =>
       st.grad = << [x |-> st.x_batch.x, y |-> st.x_batch.y,
                     g |-> 2 * st.x_batch.x * (st.w_before * st.x_batch.x - st.x_batch.y)] >>
  /\ (st.pc = "next_batch" /\ ~st.validation /\ st.visited # <<>>) =>
       st.ops = <<"forward", "loss", "backward", "step", "zero_grad">>
  /\ (st.pc = "append_loss" /\ st.train_loader # "None") =>
       /\ Len(st.visited) = Len(Batches(st.train_loader))
       /\ {[x |-> v.x, y |-> v.y] : v \in Range(st.visited)} = Range(Batches(st.train_loader))

\* C3 happens: the second mini-batch of an epoch is about to update the
\* parameters, in a train call made after a checkpoint was loaded.
WitTrainStep ==
  /\ st.pc = "step"
  /\ Len(st.visited) = 1
  /\ st.entry.total_epochs = 1
  /\ file.exists

\* C4: inside train, a process whose generator was in any state when train
\* was entered visits the mini-batches in the same order and has the same
\* losses, val_losses, parameters and optimizer state.
InvReproducible ==
  st.pc # "idle" =>
    /\ twin.pc = st.pc
    /\ twin.batches = st.batches
    /\ twin.visited = st.visited
    /\ twin.losses = st.losses
    /\ twin.val_losses = st.val_losses
    /\ twin.w = st.w
    /\ twin.opt_state = st.opt_state

\* C4 happens: a train call of two epochs on a shuffling loader returns.
WitReproducible ==
  /\ st.pc = "return"
  /\ st.n_epochs = 2
  /\ st.train_loader = "train_loader"
  /\ Len(st.losses) = 2
  /\ st.losses[1] # st.losses[2]

\* C5 as stated: when train returns, each entry it appended to losses is no
\* greater than the entry before it.
InvLossDecreases ==
  st.pc = "return" =>
    \A i \in (Len(st.entry.losses) + 2)..Len(st.losses) :
      (st.losses[i].den > 0 /\ st.losses[i - 1].den > 0) =>
        Leq(st.losses[i], st.losses[i - 1])

\* the mean of the losses of the batches visited, each measured with the
\* weight its forward pass used
VisitedMean(s) ==
  [num |-> Sum([i \in 1..Len(s.visited) |->
                 (s.visited[i].w * s.visited[i].x - s.visited[i].y) *
                 (s.visited[i].w * s.visited[i].x - s.visited[i].y)]),
   den |-> Len(s.visited)]

\* C5 amended: the entry train appends to losses for an epoch is the mean of
\* the epoch's mini-batch losses, each measured before that mini-batch's
\* update (None without a training loader); it is appended after what was there.
ThmLossIsEpochMean ==
  [][ st.pc = "append_loss" =>
        /\ st.loss = (IF st.train_loader = "None" THEN NoneLoss ELSE VisitedMean(st))
        /\ st'.losses = Append(st.losses, st.loss) ]_vars

\* C5 amended happens: the loss about to be appended is greater than the one
\* of the epoch before, in the same train call.
WitLossIsEpochMean ==
  /\ st.pc = "append_loss"
  /\ st.epoch = 1
  /\ st.loss.den > 0
  /\ Last(st.losses).den > 0
  /\ ~Leq(st.loss, Last(st.losses))

\* total_epochs and the two histories count the same epochs
Consistent(s) ==
  s.total_epochs = Len(s.losses) /\ s.total_epochs = Len(s.val_losses)

\* seq is old followed by n more entries
Extends(seq, old, n) ==
  Len(seq) = Len(old) + n /\ SubSeq(seq, 1, Len(old)) = old

\* C6: between calls, as long as no train call has raised, total_epochs =
\* len(losses) = len(val_losses); when train(n) returns, total_epochs is n more
\* than at entry and each history is the one at entry followed by n entries;
\* inside the training pass of an epoch total_epochs is one ahead of losses;
\* and a train call that raises leaves total_epochs greater than len(losses).
ThmEpochBookkeeping ==
  [][ /\ (st'.pc = "idle" /\ ~st'.train_raised) => Consistent(st')
      /\ st'.pc = "return" =>
           /\ st'.total_epochs = st'.entry.total_epochs + st'.n_epochs
           /\ Extends(st'.losses, st'.entry.losses, st'.n_epochs)
           /\ Extends(st'.val_losses, st'.entry.val_losses, st'.n_epochs)
      /\ ((InTrainStep(st') \/ st'.pc = "append_loss") /\ ~st'.train_raised) =>
           st'.total_epochs = Len(st'.losses) + 1
      /\ (st.pc \notin {"idle", "return"} /\ st'.pc = "idle") =>
           st'.total_epochs > Len(st'.losses) ]_vars

\* C6 happens: after a train call has raised and a checkpoint has restored a
\* history of one epoch, train(1) returns.
WitEpochBookkeeping ==
  /\ st.pc = "return"
  /\ st.train_raised
  /\ st.n_epochs = 1
  /\ st.entry.total_epochs = 1
  /\ Len(st.entry.losses) = 1
  /\ Len(st.entry.val_losses) = 1

\* C7: a step of the validation pass of an epoch, and a predict call, leave
\* the model's parameters, the accumulated gradients and the optimizer's state
\* as they are.
ThmEvalFrame ==
  [][ ((st.pc # "idle" /\ st.validation /\ st.pc # "loop") \/ Predict) =>
        /\ st'.w = st.w
        /\ st'.grad = st.grad
        /\ st'.opt_state = st.opt_state ]_vars

\* C7 happens: the validation pass of a second epoch has measured its batch.
WitEvalFrame ==
  /\ st.pc = "append_val"
  /\ st.val_loader # "None"
  /\ st.val_loss.den > 0
  /\ st.total_epochs = 2
  /\ st.opt_state > 0

\* the record add_scalars writes for the k-th epoch of the call
EpochRecord(s, k) ==
  [kind |-> "add_scalars", global_step |-> k - 1,
   training |-> s.losses[Len(s.entry.losses) + k],
   validation |-> s.val_losses[Len(s.entry.val_losses) + k]]

\* C8: with a writer set, train has recorded each finished epoch of the call
\* exactly once, in order, with global_step the epoch's index in the call and
\* that epoch's losses, and when it returns it has closed the writer once,
\* after the last record; with no writer nothing is recorded or closed.
InvLogging ==
  st.pc # "idle" =>
    IF st.entry.writer = "None"
    THEN st.events = <<>> /\ st.writer = "None"
    ELSE /\ st.writer # "None"
         /\ Len(st.events) = st.epoch + (IF st.pc = "return" THEN 1 ELSE 0)
         /\ \A k \in 1..st.epoch : st.events[k] = EpochRecord(st, k)
         /\ st.pc = "return" =>
              /\ st.epoch = st.n_epochs
              /\ st.events[st.n_epochs + 1].kind = "close"
              /\ st.writer = "closed"

\* C8 happens: a second train call, entered with the writer the first call
\* closed, returns having recorded its epoch as global_step 0, with both
\* losses, and closed the writer again.
WitLogging ==
  /\ st.pc = "return"
  /\ st.entry.writer = "closed"
  /\ st.entry.total_epochs = 1
  /\ st.n_epochs = 1
  /\ st.events[1].global_step = 0
  /\ st.events[1].training.den > 0
  /\ st.events[1].validation.den > 0
  /\ st.events[2].kind = "close"

====
